---- MODULE Spec2Model ----
(***************************************************************************)
(* Model of server.js: the Telegram-controlled WhatsApp bulk sender.       *)
(*                                                                         *)
(* The program is one single-threaded event loop.  Every action below is   *)
(* one run-to-completion segment of JavaScript: the code executed between  *)
(* two suspension points (await / timer / inbound event).                  *)
(*                                                                         *)
(* Text is modelled as a sequence of one-character strings so that the     *)
(* string operations of the source (replace, startsWith, split, trim,      *)
(* toUpperCase, regular-expression search) are computed, not assumed.      *)
(***************************************************************************)
EXTENDS Integers, Sequences, FiniteSets, TLC

(***************************************************************************)
(* Bounds of the model (not program constants).                            *)
(***************************************************************************)
MaxCampaigns == 2
MaxListeners == 2
MaxTimers == 1
MaxSampleLen == 3
MaxRecipients == 4
MaxBatch == 2

(***************************************************************************)
(* Program constants.                                                      *)
(***************************************************************************)
MESSAGE_DELAY_MIN == 5000
MESSAGE_DELAY_MAX == 10000
BATCH_DELAY == 60000
RETRY_BACKOFF == 3000
PROGRESS_EVERY == 10
FAILED_LIST_LIMIT == 20
MIN_FULL_LENGTH == 12

Operators == {1, 2, 3}

(***************************************************************************)
(* Text literals of the source.                                            *)
(***************************************************************************)
Digits == {"0", "1", "2", "3", "4", "5", "6", "7", "8", "9"}
Whitespace == {" ", "\n"}
SUFFIX == <<"@", "c", ".", "u", "s">>
PREFIX == <<"2", "1", "2">>
ALT_PREFIX == <<"1">>
CMD_SEND == <<"/", "s", "e", "n", "d">>
CMD_TEST == <<"/", "t", "e", "s", "t">>
CMD_STOP == <<"/", "s", "t", "o", "p">>
CMD_ADDCONTACTS == <<"/", "a", "d", "d", "c", "o", "n", "t", "a", "c", "t", "s">>
CMD_ADDCONTACT == <<"/", "a", "d", "d", "c", "o", "n", "t", "a", "c", "t", " ">>
CMD_CLEARCONTACTS == <<"/", "c", "l", "e", "a", "r", "c", "o", "n", "t", "a", "c", "t", "s">>
CMD_DONE == <<"/", "d", "o", "n", "e">>
CMD_CANCEL == <<"/", "c", "a", "n", "c", "e", "l">>
YES == <<"Y", "E", "S">>

(***************************************************************************)
(* String helpers: the String methods the source uses.                     *)
(***************************************************************************)
startsWith(s, p) == Len(s) >= Len(p) /\ SubSeq(s, 1, Len(p)) = p

\* Position of the first occurrence of sub in s, 0 when absent (RegExp search
\* for a literal pattern).
IndexOf(s, sub) ==
    LET hits == {k \in 1..(Len(s) - Len(sub) + 1) : SubSeq(s, k, k + Len(sub) - 1) = sub}
    IN  IF hits = {} THEN 0 ELSE CHOOSE k \in hits : \A j \in hits : k <= j

toUpperCase(s) ==
    LET up(c) == CASE c = "y" -> "Y" [] c = "e" -> "E" [] c = "s" -> "S"
                   [] c = "h" -> "H" [] c = "i" -> "I" [] OTHER -> c
    IN  [k \in 1..Len(s) |-> up(s[k])]

RECURSIVE trimStart(_)
trimStart(s) == IF s # <<>> /\ Head(s) \in Whitespace THEN trimStart(Tail(s)) ELSE s

RECURSIVE trimEnd(_)
trimEnd(s) == IF s # <<>> /\ s[Len(s)] \in Whitespace THEN trimEnd(SubSeq(s, 1, Len(s) - 1)) ELSE s

trim(s) == trimEnd(trimStart(s))

\* text.split('\n')
RECURSIVE split(_)
split(s) ==
    LET k == IndexOf(s, <<"\n">>)
    IN  IF k = 0 THEN <<s>> ELSE <<SubSeq(s, 1, k - 1)>> \o split(SubSeq(s, k + 1, Len(s)))

\* phone.replace(/\D/g, '')
StripNonDigits(s) == SelectSeq(s, LAMBDA c : c \in Digits)

formatPhoneNumber_NoPrefixTest(phone) ==
    LET d == StripNonDigits(phone)
    IN  (IF ~startsWith(d, ALT_PREFIX) /\ Len(d) < MIN_FULL_LENGTH
         THEN PREFIX \o d ELSE d) \o SUFFIX

formatPhoneNumber_NoLengthTest(phone) ==
    LET d == StripNonDigits(phone)
    IN  (IF ~startsWith(d, PREFIX) /\ ~startsWith(d, ALT_PREFIX)
         THEN PREFIX \o d ELSE d) \o SUFFIX

formatPhoneNumber(phone) ==
    LET d == StripNonDigits(phone)
    IN  (IF ~startsWith(d, PREFIX) /\ ~startsWith(d, ALT_PREFIX) /\ Len(d) < MIN_FULL_LENGTH
         THEN PREFIX \o d ELSE d) \o SUFFIX

\* Math.floor(Math.random() * n): any integer of 0..n-1; the model samples the
\* two ends and the middle of that range.
RandomFloor(n) == {0, (n - 1) \div 2, n - 1}

\* r is the value of Math.floor(Math.random() * (max - min + 1)).
getRandomDelay(min, max, r) == r + min


(***************************************************************************)
(* State.  whatsappReady, contacts, currentCampaign and campaigns are the  *)
(* fields of the global `state` object; persisted is the content of        *)
(* bot_state.json; listeners are the 'message' listeners registered on the *)
(* Telegram client, in registration order; tasks are listener              *)
(* continuations suspended at an await; loops are the suspended            *)
(* startCampaign invocations; deliveryTimers counts the armed delivery     *)
(* callbacks.  AUTHORIZED_USERS, MAX_RETRIES, BATCH_SIZE and                *)
(* ENABLE_DELIVERY_CHECK are read from the environment once, at start-up;  *)
(* diskOk tells whether fs.writeFile succeeds on this host; budget is the  *)
(* number of campaigns the operators confirm in the run.  fmtIn and fmtOut *)
(* hold an argument and the result of formatPhoneNumber.  clientInfo tells  *)
(* whether whatsappClient.info is defined: the client learns the identity  *)
(* of its account when it becomes ready.                                   *)
(***************************************************************************)
VARIABLES whatsappReady, contacts, currentCampaign, campaigns, persisted,
          listeners, tasks, loops, nextId, deliveryTimers,
          AUTHORIZED_USERS, MAX_RETRIES, BATCH_SIZE, ENABLE_DELIVERY_CHECK, diskOk,
          budget, fmtIn, fmtOut, clientInfo

vars == <<whatsappReady, contacts, currentCampaign, campaigns, persisted,
          listeners, tasks, loops, nextId, deliveryTimers,
          AUTHORIZED_USERS, MAX_RETRIES, BATCH_SIZE, ENABLE_DELIVERY_CHECK, diskOk,
          budget, fmtIn, fmtOut, clientInfo>>

config == <<AUTHORIZED_USERS, MAX_RETRIES, BATCH_SIZE, ENABLE_DELIVERY_CHECK, diskOk, budget>>

isAuthorized_Open(userId) == TRUE

isAuthorized(userId) == AUTHORIZED_USERS = {} \/ userId \in AUTHORIZED_USERS

harness == <<fmtIn, fmtOut>>

Null == [id |-> 0]
NoTime == "unset"
Now == "date"
NotFormatted == <<"?">>

LoopIds == 1..MaxCampaigns
NoLoop == [pc |-> "none"]
DoneLoop == [pc |-> "done"]
LivePcs == {"startNotice", "lookup", "send", "progress", "backoff", "pauseNotice",
            "batchPause", "delay", "summary", "failedList", "saving"}
\* Suspension points that lie inside the processing of recipient i.
ProcessingPcs == {"lookup", "send", "progress", "backoff", "pauseNotice", "batchPause", "delay"}

Removed == [kind |-> "removed"]

\* The mutable world a handler runs against; ok turns FALSE when a handler
\* would exceed a bound of the model.
CurSt == [whatsappReady |-> whatsappReady, contacts |-> contacts,
          currentCampaign |-> currentCampaign, campaigns |-> campaigns,
          persisted |-> persisted, listeners |-> listeners, tasks |-> tasks,
          loops |-> loops, nextId |-> nextId, ok |-> TRUE]

Snapshot(st) == [whatsappReady |-> st.whatsappReady, currentCampaign |-> st.currentCampaign,
                 campaigns |-> st.campaigns, contacts |-> st.contacts]

\* saveState(): JSON.stringify(state) is taken at the call and written; a
\* failed write is caught and logged.
saveState(st) == IF diskOk THEN [st EXCEPT !.persisted = Snapshot(st)] ELSE st

includes(seq, x) == \E k \in 1..Len(seq) : seq[k] = x

\* if (!state.contacts.includes(formatted)) state.contacts.push(formatted)
AddContact_NoMembershipTest(cs, raw) == Append(cs, formatPhoneNumber(raw))

AddContact(cs, raw) ==
    LET formatted == formatPhoneNumber(raw)
    IN  IF ~includes(cs, formatted) THEN Append(cs, formatted) ELSE cs

RECURSIVE AddNumbers(_, _)
AddNumbers(cs, numbers) ==
    IF numbers = <<>> THEN cs ELSE AddNumbers(AddContact(cs, Head(numbers)), Tail(numbers))

\* text.split('\n').map(n => n.trim()).filter(n => n)
ParseNumbers(text) ==
    LET parts == split(text)
    IN  SelectSeq([k \in 1..Len(parts) |-> trim(parts[k])], LAMBDA n : n # <<>>)

NewCampaign(id, message, cs) ==
    [id |-> id, message |-> message, contacts |-> cs, total |-> Len(cs),
     sent |-> 0, failed |-> 0, delivered |-> 0, failedContacts |-> <<>>,
     status |-> "running", startTime |-> Now, endTime |-> NoTime]

NewLoop(chatId, message, cs) ==
    [pc |-> "startNotice", chatId |-> chatId, message |-> message,
     live |-> TRUE, arr |-> <<>>, i |-> 0, attempts |-> 0, sent |-> FALSE,
     batchCount |-> 0, pause |-> 0,
     \* history of the run, kept for the properties only
     snapshot |-> cs, stopAt |-> -1, exit |-> "none", sendAttempts |-> 0,
     sendFails |-> 0, lastBatchPause |-> -1]

\* startCampaign, up to its first await: the slot is overwritten unconditionally.
startCampaignBegin(st, chatId, message) ==
    IF st.nextId > budget THEN [st EXCEPT !.ok = FALSE]
    ELSE [st EXCEPT !.currentCampaign = NewCampaign(st.nextId, message, st.contacts),
                    !.loops[st.nextId] = NewLoop(chatId, message, st.contacts),
                    !.nextId = st.nextId + 1]

\* telegram.on('message', listener)
Register(st, l) == [st EXCEPT !.listeners = Append(st.listeners, l)]
Unregister(st, k) == [st EXCEPT !.listeners[k] = Removed]

contactListener_NoCancel(st, k, chatId, from, text) ==
    IF from # chatId THEN st
    ELSE IF text = CMD_DONE THEN saveState(Unregister(st, k))
    ELSE IF startsWith(text, <<"/">>) THEN st
    ELSE [st EXCEPT !.contacts = AddNumbers(st.contacts, ParseNumbers(text))]

contactListener(st, k, chatId, from, text) ==
    IF from # chatId THEN st
    ELSE IF text = CMD_DONE THEN saveState(Unregister(st, k))
    ELSE IF text = CMD_CANCEL THEN Unregister(st, k)
    ELSE IF startsWith(text, <<"/">>) THEN st
    ELSE [st EXCEPT !.contacts = AddNumbers(st.contacts, ParseNumbers(text))]

messageListener_AnyChat(st, k, chatId, from, text) ==
    IF text = CMD_CANCEL THEN Unregister(st, k)
    ELSE IF startsWith(text, <<"/">>) THEN st
    ELSE LET s1 == Unregister(st, k)
         IN  [s1 EXCEPT !.tasks = Append(s1.tasks, [kind |-> "prompt", chatId |-> chatId, message |-> text])]

messageListener(st, k, chatId, from, text) ==
    IF from # chatId THEN st
    ELSE IF text = CMD_CANCEL THEN Unregister(st, k)
    ELSE IF startsWith(text, <<"/">>) THEN st
    ELSE LET s1 == Unregister(st, k)
         IN  [s1 EXCEPT !.tasks = Append(s1.tasks, [kind |-> "prompt", chatId |-> chatId, message |-> text])]

confirmListener_AnyText(st, k, chatId, message, from, text) ==
    IF from # chatId THEN st
    ELSE IF text = CMD_CANCEL THEN Unregister(st, k)
    ELSE startCampaignBegin(Unregister(st, k), chatId, message)

confirmListener(st, k, chatId, message, from, text) ==
    IF from # chatId THEN st
    ELSE IF text = CMD_CANCEL THEN Unregister(st, k)
    ELSE IF toUpperCase(text) = YES THEN startCampaignBegin(Unregister(st, k), chatId, message)
    ELSE st

\* Line 659 reads whatsappClient.info.wid inside the try: with info undefined
\* the read throws, the catch replies, and sendMessage is never called.
testListener(st, k, chatId, from, text) ==
    IF from # chatId THEN st
    ELSE IF text = CMD_CANCEL THEN Unregister(st, k)
    ELSE IF startsWith(text, <<"/">>) THEN st
    ELSE LET s1 == Unregister(st, k)
         IN  IF clientInfo
             THEN [s1 EXCEPT !.tasks = Append(s1.tasks, [kind |-> "test", chatId |-> chatId, message |-> text])]
             ELSE s1

\* emit('message'): the listeners registered when the event is emitted run in
\* registration order, each to its first await.
RECURSIVE EmitMessage(_, _, _, _, _)
EmitMessage(st, ls, k, from, text) ==
    IF k > Len(ls) THEN st
    ELSE LET l == ls[k]
             s1 == CASE l.kind = "contact" -> contactListener(st, k, l.chatId, from, text)
                     [] l.kind = "message" -> messageListener(st, k, l.chatId, from, text)
                     [] l.kind = "confirm" -> confirmListener(st, k, l.chatId, l.message, from, text)
                     [] l.kind = "test" -> testListener(st, k, l.chatId, from, text)
         IN  EmitMessage(s1, ls, k + 1, from, text)


(***************************************************************************)
(* telegram.onText handlers, each up to its first await.  A handler runs   *)
(* when its regular expression is found anywhere in the text.  /start,     *)
(* /debug, /help, /status, /contacts and /campaigns only reply and         *)
(* /reconnect only restarts the WhatsApp client, so they assign nothing.   *)
(***************************************************************************)
\* /\/addcontact (.+)/: the group runs to the end of the line.
onAddContact(st, from, text) ==
    LET k == IndexOf(text, CMD_ADDCONTACT)
        rest == SubSeq(text, k + Len(CMD_ADDCONTACT), Len(text))
        nl == IndexOf(rest, <<"\n">>)
        group == IF nl = 0 THEN rest ELSE SubSeq(rest, 1, nl - 1)
    IN  IF k = 0 \/ group = <<>> THEN st
        ELSE IF ~isAuthorized(from) THEN st
        ELSE LET phoneNumber == trim(group)
                 cs == AddContact(st.contacts, phoneNumber)
             IN  IF cs # st.contacts THEN saveState([st EXCEPT !.contacts = cs]) ELSE st

onAddContacts(st, from, text) ==
    IF IndexOf(text, CMD_ADDCONTACTS) = 0 THEN st
    ELSE IF ~isAuthorized(from) THEN st
    ELSE Register(st, [kind |-> "contact", chatId |-> from, message |-> <<>>])

onClearContacts(st, from, text) ==
    IF IndexOf(text, CMD_CLEARCONTACTS) = 0 THEN st
    ELSE IF ~isAuthorized(from) THEN st
    ELSE \* state.contacts = []: a new array; running loops keep the old one
         saveState([st EXCEPT
             !.loops = [l \in LoopIds |->
                          IF st.loops[l].pc \in LivePcs /\ st.loops[l].live
                          THEN [st.loops[l] EXCEPT !.live = FALSE, !.arr = st.contacts]
                          ELSE st.loops[l]],
             !.contacts = <<>>])

onSend(st, from, text) ==
    IF IndexOf(text, CMD_SEND) = 0 THEN st
    ELSE IF ~isAuthorized(from) THEN st
    ELSE IF ~st.whatsappReady THEN st
    ELSE IF Len(st.contacts) = 0 THEN st
    ELSE IF st.currentCampaign # Null /\ st.currentCampaign.status = "running" THEN st
    ELSE Register(st, [kind |-> "message", chatId |-> from, message |-> <<>>])

onTest(st, from, text) ==
    IF IndexOf(text, CMD_TEST) = 0 THEN st
    ELSE IF ~isAuthorized(from) THEN st
    ELSE IF ~st.whatsappReady THEN st
    ELSE Register(st, [kind |-> "test", chatId |-> from, message |-> <<>>])

onStop_NoRunningTest(st, from, text) ==
    IF IndexOf(text, CMD_STOP) = 0 THEN st
    ELSE IF ~isAuthorized(from) THEN st
    ELSE IF st.currentCampaign = Null THEN st
    ELSE LET id == st.currentCampaign.id
             s1 == [st EXCEPT !.currentCampaign.status = "stopped"]
         IN  IF st.loops[id].pc \in ProcessingPcs
             THEN [s1 EXCEPT !.loops[id].stopAt = st.loops[id].i]
             ELSE s1

onStop(st, from, text) ==
    IF IndexOf(text, CMD_STOP) = 0 THEN st
    ELSE IF ~isAuthorized(from) THEN st
    ELSE IF st.currentCampaign = Null \/ st.currentCampaign.status # "running" THEN st
    ELSE LET id == st.currentCampaign.id
             s1 == [st EXCEPT !.currentCampaign.status = "stopped"]
         IN  \* remembered for the properties: where the loop stood
             IF st.loops[id].pc \in ProcessingPcs
             THEN [s1 EXCEPT !.loops[id].stopAt = st.loops[id].i]
             ELSE s1

\* processUpdate: the 'message' event first, then the text handlers in the
\* order of their registration.
Dispatch(st, from, text) ==
    LET s1 == EmitMessage(st, st.listeners, 1, from, text)
        s2 == onAddContact(s1, from, text)
        s3 == onAddContacts(s2, from, text)
        s4 == onClearContacts(s3, from, text)
        s5 == onSend(s4, from, text)
        s6 == onTest(s5, from, text)
        s7 == onStop(s6, from, text)
    IN  [s7 EXCEPT !.listeners = SelectSeq(s7.listeners, LAMBDA l : l # Removed)]

WithinBounds(st) == st.ok /\ Len(st.listeners) + Len(st.tasks) <= MaxListeners

Commit(st) ==
    /\ WithinBounds(st)
    /\ whatsappReady' = st.whatsappReady
    /\ contacts' = st.contacts
    /\ currentCampaign' = st.currentCampaign
    /\ campaigns' = st.campaigns
    /\ persisted' = st.persisted
    /\ listeners' = st.listeners
    /\ tasks' = st.tasks
    /\ loops' = st.loops
    /\ nextId' = st.nextId

(***************************************************************************)
(* Inbound texts the operators send.                                       *)
(***************************************************************************)
RawLocal == <<"0", "6", "1", "2", "3", "4", "5", "6", "7", "8">>
RawIntl == <<"+", "2", "1", "2", "6", "1", "2", "3", "4", "5", "6", "7", "8">>
RawSpaced == <<"2", "1", "2", " ", "6", "1", "2", " ", "3", "4", "5", " ", "6", "7", "8">>
RawA == <<"0", "6">>
RawB == <<"+", "2", "1", "2", "6">>
TxtHi == <<"h", "i">>
TxtYes == <<"y", "e", "s">>
TxtNumbers == RawIntl \o <<"\n", " ">> \o RawLocal \o <<" ", "\n", "\n">> \o RawSpaced
\* The texts of a campaign: registry commands, /send, body, confirmation, /stop.
CampaignTexts == {CMD_SEND, CMD_STOP, CMD_CLEARCONTACTS, CMD_CANCEL,
                  CMD_ADDCONTACT \o RawA, CMD_ADDCONTACT \o RawB, TxtYes}

\* An update with a text message arrives from the control channel.
Message(from, text) ==
    /\ Commit(Dispatch(CurSt, from, text))
    /\ UNCHANGED <<deliveryTimers, config, harness, clientInfo>>


(***************************************************************************)
(* The dispatch loop of startCampaign.  A loop reads and writes the        *)
(* campaign through state.currentCampaign at every access, and iterates    *)
(* over the array it was handed (state.contacts itself, not the copy kept  *)
(* in the record).                                                         *)
(***************************************************************************)
ERR_TYPE == "TypeError: Cannot read properties of null"
ERR_LOOKUP == "lookup failed"
ERR_SEND == "send failed"
ERR_NOTIFY == "notification failed"
INVALID_NUMBER == "Invalid number"

\* The startCampaign invocation l is suspended at one of its awaits.
Live(l) == loops[l].pc \in LivePcs

LoopContacts(l) == IF loops[l].live THEN contacts ELSE loops[l].arr

W(l) == [cc |-> currentCampaign, campaigns |-> campaigns, lp |-> loops[l],
         timers |-> deliveryTimers, persisted |-> persisted]

CommitLoop(l, w) ==
    /\ currentCampaign' = w.cc
    /\ campaigns' = w.campaigns
    /\ loops' = [loops EXCEPT ![l] = w.lp]
    /\ deliveryTimers' = w.timers
    /\ persisted' = w.persisted
    /\ UNCHANGED <<whatsappReady, contacts, listeners, tasks, nextId, config, harness, clientInfo>>

\* An exception leaves startCampaign: the invocation ends, nothing is undone.
Die(w) == [w EXCEPT !.lp = [pc |-> "dead", at |-> w.lp.pc]]

\* state.currentCampaign.failed++; state.currentCampaign.failedContacts.push(e)
\* The archived copy {...state.currentCampaign} shares the failedContacts array.
PushFailed(w, e) ==
    [w EXCEPT !.cc.failed = @ + 1,
              !.cc.failedContacts = Append(@, e),
              !.campaigns = [k \in DOMAIN w.campaigns |->
                               IF w.campaigns[k].id = w.cc.id
                               THEN [w.campaigns[k] EXCEPT !.failedContacts = Append(@, e)]
                               ELSE w.campaigns[k]]]

\* Lines 769-770: after the for loop, the status is set whatever ended it.
Finalize(w, why) ==
    IF w.cc = Null THEN Die(w)
    ELSE [w EXCEPT !.cc.status = "completed", !.cc.endTime = Now,
                   !.lp.pc = "summary", !.lp.exit = why]

\* Lines 688-697: the for condition, the status check, the reset of the
\* per-recipient locals.
EnterIteration(w, cs) ==
    IF w.lp.i >= Len(cs) THEN Finalize(w, "exhausted")
    ELSE IF w.cc = Null THEN Die(w)
    ELSE IF w.cc.status # "running" THEN Finalize(w, "stopObserved")
    ELSE [w EXCEPT !.lp.attempts = 0, !.lp.sent = FALSE, !.lp.pc = "lookup",
                   !.lp.sendAttempts = 0, !.lp.sendFails = 0]

NextRecipient_SkipOne(w, cs) == EnterIteration([w EXCEPT !.lp.i = @ + 2, !.lp.pause = 0], cs)

NextRecipient(w, cs) == EnterIteration([w EXCEPT !.lp.i = @ + 1, !.lp.pause = 0], cs)

\* Lines 755-766.
AfterRecipient_StrictBatch(w, cs, r) ==
    LET bc == w.lp.batchCount + 1
        w1 == [w EXCEPT !.lp.batchCount = bc]
    IN  IF bc > BATCH_SIZE /\ w.lp.i < Len(cs) - 1
        THEN [w1 EXCEPT !.lp.pc = "pauseNotice"]
        ELSE IF w.lp.i < Len(cs) - 1
        THEN [w1 EXCEPT !.lp.pc = "delay",
                        !.lp.pause = getRandomDelay(MESSAGE_DELAY_MIN, MESSAGE_DELAY_MAX, r)]
        ELSE NextRecipient(w1, cs)

AfterRecipient(w, cs, r) ==
    LET bc == w.lp.batchCount + 1
        w1 == [w EXCEPT !.lp.batchCount = bc]
    IN  IF bc >= BATCH_SIZE /\ w.lp.i < Len(cs) - 1
        THEN [w1 EXCEPT !.lp.pc = "pauseNotice"]
        ELSE IF w.lp.i < Len(cs) - 1
        THEN [w1 EXCEPT !.lp.pc = "delay",
                        !.lp.pause = getRandomDelay(MESSAGE_DELAY_MIN, MESSAGE_DELAY_MAX, r)]
        ELSE NextRecipient(w1, cs)

\* while (attempts < MAX_RETRIES && !sent)
WhileTest(w, cs, r) ==
    IF w.lp.attempts < MAX_RETRIES /\ ~w.lp.sent
    THEN [w EXCEPT !.lp.pc = "lookup"]
    ELSE AfterRecipient(w, cs, r)

\* Lines 738-752: the catch block.
Catch(w, cs, r, message) ==
    LET n == w.lp.attempts + 1
        w1 == [w EXCEPT !.lp.attempts = n]
    IN  IF n >= MAX_RETRIES
        THEN IF w.cc = Null THEN Die(w1)
             ELSE WhileTest(PushFailed(w1, [contact |-> cs[w.lp.i + 1], reason |-> message,
                                            attempts |-> n]), cs, r)
        ELSE [w1 EXCEPT !.lp.pc = "backoff"]

Randoms == RandomFloor(MESSAGE_DELAY_MAX - MESSAGE_DELAY_MIN + 1)

\* The start notice was delivered, or its promise rejected.
StartNoticeDone(l) ==
    /\ loops[l].pc = "startNotice"
    /\ CommitLoop(l, EnterIteration(W(l), LoopContacts(l)))

StartNoticeFails(l) ==
    /\ loops[l].pc = "startNotice"
    /\ CommitLoop(l, Die(W(l)))

\* getNumberId resolved with null.
LookupNotFound(l) ==
    /\ loops[l].pc = "lookup"
    /\ \E r \in Randoms :
         LET w == W(l)
             cs == LoopContacts(l)
         IN  CommitLoop(l, IF w.cc = Null THEN Catch(w, cs, r, ERR_TYPE)
                           ELSE AfterRecipient(
                                  PushFailed(w, [contact |-> cs[w.lp.i + 1],
                                                 reason |-> INVALID_NUMBER]), cs, r))

\* getNumberId resolved with an id: sendMessage is called.
LookupFound(l) ==
    /\ loops[l].pc = "lookup"
    /\ CommitLoop(l, [W(l) EXCEPT !.lp.pc = "send", !.lp.sendAttempts = @ + 1])

LookupThrows(l) ==
    /\ loops[l].pc = "lookup"
    /\ \E r \in Randoms : CommitLoop(l, Catch(W(l), LoopContacts(l), r, ERR_LOOKUP))


\* sendMessage resolved (lines 708-736).
SendOk(l) ==
    /\ loops[l].pc = "send"
    /\ deliveryTimers < MaxTimers \/ currentCampaign = Null \/ ~ENABLE_DELIVERY_CHECK
    /\ \E r \in Randoms :
         LET w == W(l)
             cs == LoopContacts(l)
             w1 == [w EXCEPT !.cc.sent = @ + 1, !.lp.sent = TRUE,
                             !.timers = IF ENABLE_DELIVERY_CHECK THEN @ + 1 ELSE @]
         IN  CommitLoop(l, IF w.cc = Null THEN Catch(w, cs, r, ERR_TYPE)
                           ELSE IF (w.lp.i + 1) % PROGRESS_EVERY = 0 \/ w.lp.i = Len(cs) - 1
                           THEN [w1 EXCEPT !.lp.pc = "progress"]
                           ELSE WhileTest(w1, cs, r))

SendThrows(l) ==
    /\ loops[l].pc = "send"
    /\ \E r \in Randoms :
         CommitLoop(l, Catch([W(l) EXCEPT !.lp.sendFails = @ + 1], LoopContacts(l), r, ERR_SEND))

\* The progress report was delivered, or its promise rejected inside the try.
ProgressDone(l) ==
    /\ loops[l].pc = "progress"
    /\ \E r \in Randoms : CommitLoop(l, WhileTest(W(l), LoopContacts(l), r))

ProgressFails(l) ==
    /\ loops[l].pc = "progress"
    /\ \E r \in Randoms : CommitLoop(l, Catch(W(l), LoopContacts(l), r, ERR_NOTIFY))

\* The 3000 ms retry timer fired.
BackoffDone(l) ==
    /\ loops[l].pc = "backoff"
    /\ \E r \in Randoms : CommitLoop(l, WhileTest(W(l), LoopContacts(l), r))

\* The batch-break notice was delivered: the BATCH_DELAY timer is armed.
PauseNoticeDone(l) ==
    /\ loops[l].pc = "pauseNotice"
    /\ CommitLoop(l, [W(l) EXCEPT !.lp.pc = "batchPause", !.lp.pause = BATCH_DELAY])

PauseNoticeFails(l) ==
    /\ loops[l].pc = "pauseNotice"
    /\ CommitLoop(l, Die(W(l)))

\* The BATCH_DELAY timer fired: batchCount = 0, next iteration.
BatchPauseDone(l) ==
    /\ loops[l].pc = "batchPause"
    /\ CommitLoop(l, NextRecipient([W(l) EXCEPT !.lp.batchCount = 0,
                                                !.lp.lastBatchPause = loops[l].i],
                                   LoopContacts(l)))

\* The random inter-message timer fired.
DelayDone(l) ==
    /\ loops[l].pc = "delay"
    /\ CommitLoop(l, NextRecipient(W(l), LoopContacts(l)))

\* Lines 802-803: state.campaigns.push({...state.currentCampaign}); saveState()
Archive(w) ==
    LET w1 == [w EXCEPT !.campaigns = Append(@, w.cc), !.lp.pc = "saving"]
    IN  IF diskOk
        THEN [w1 EXCEPT !.persisted = [whatsappReady |-> whatsappReady,
                                       currentCampaign |-> w1.cc,
                                       campaigns |-> w1.campaigns,
                                       contacts |-> contacts]]
        ELSE w1

\* The summary was delivered (lines 792-803).
SummaryDone(l) ==
    /\ loops[l].pc = "summary"
    /\ LET w == W(l)
       IN  CommitLoop(l, IF w.cc = Null THEN Die(w)
                         ELSE IF Len(w.cc.failedContacts) > 0
                         THEN [w EXCEPT !.lp.pc = "failedList"]
                         ELSE Archive(w))

SummaryFails(l) ==
    /\ loops[l].pc = "summary"
    /\ CommitLoop(l, Die(W(l)))

\* The failed-contacts list (or the too-many-failures notice) was delivered.
FailedListDone(l) ==
    /\ loops[l].pc = "failedList"
    /\ LET w == W(l)
       IN  CommitLoop(l, IF w.cc = Null THEN Die(w) ELSE Archive(w))

FailedListFails(l) ==
    /\ loops[l].pc = "failedList"
    /\ CommitLoop(l, Die(W(l)))

\* saveState() returned: state.currentCampaign = null (line 805).
SaveDone(l) ==
    /\ loops[l].pc = "saving"
    /\ CommitLoop(l, [W(l) EXCEPT !.cc = Null, !.lp = DoneLoop])

(***************************************************************************)
(* The delivery callback armed at lines 714-723.                           *)
(***************************************************************************)
DeliveryAcked ==
    /\ deliveryTimers > 0
    /\ deliveryTimers' = deliveryTimers - 1
    \* with an empty slot the increment throws inside the callback's try
    /\ currentCampaign' = IF currentCampaign = Null THEN Null
                          ELSE [currentCampaign EXCEPT !.delivered = @ + 1]
    /\ UNCHANGED <<whatsappReady, contacts, campaigns, persisted, listeners, tasks,
                   loops, nextId, config, harness, clientInfo>>

DeliveryNotAcked_Counts ==
    /\ deliveryTimers > 0
    /\ deliveryTimers' = deliveryTimers - 1
    /\ currentCampaign' = IF currentCampaign = Null THEN Null
                          ELSE [currentCampaign EXCEPT !.delivered = @ + 1]
    /\ UNCHANGED <<whatsappReady, contacts, campaigns, persisted, listeners, tasks,
                   loops, nextId, config, harness, clientInfo>>

\* ack < 2, no message, or getMessageById threw.
DeliveryNotAcked ==
    /\ deliveryTimers > 0
    /\ deliveryTimers' = deliveryTimers - 1
    /\ UNCHANGED <<whatsappReady, contacts, currentCampaign, campaigns, persisted,
                   listeners, tasks, loops, nextId, config, harness, clientInfo>>

(***************************************************************************)
(* Continuations of the dialog listeners.                                  *)
(***************************************************************************)
RemoveAt(seq, k) == SubSeq(seq, 1, k - 1) \o SubSeq(seq, k + 1, Len(seq))

\* The confirmation prompt was delivered: confirmListener is registered.
PromptDone(k) ==
    /\ k \in DOMAIN tasks
    /\ tasks[k].kind = "prompt"
    /\ tasks' = RemoveAt(tasks, k)
    /\ listeners' = Append(listeners, [kind |-> "confirm", chatId |-> tasks[k].chatId,
                                       message |-> tasks[k].message])
    /\ UNCHANGED <<whatsappReady, contacts, currentCampaign, campaigns, persisted,
                   loops, nextId, deliveryTimers, config, harness, clientInfo>>

PromptFails(k) ==
    /\ k \in DOMAIN tasks
    /\ tasks[k].kind = "prompt"
    /\ tasks' = RemoveAt(tasks, k)
    /\ UNCHANGED <<whatsappReady, contacts, currentCampaign, campaigns, persisted,
                   listeners, loops, nextId, deliveryTimers, config, harness, clientInfo>>

\* The test send resolved or threw: a reply either way.
TestSendDone(k) ==
    /\ k \in DOMAIN tasks
    /\ tasks[k].kind = "test"
    /\ tasks' = RemoveAt(tasks, k)
    /\ UNCHANGED <<whatsappReady, contacts, currentCampaign, campaigns, persisted,
                   listeners, loops, nextId, deliveryTimers, config, harness, clientInfo>>

(***************************************************************************)
(* WhatsApp client events.                                                 *)
(***************************************************************************)
Ready ==
    /\ whatsappReady' = TRUE
    /\ clientInfo' = TRUE
    /\ UNCHANGED <<contacts, currentCampaign, campaigns, persisted, listeners, tasks,
                   loops, nextId, deliveryTimers, config, harness>>

Disconnected ==
    /\ whatsappReady' = FALSE
    /\ UNCHANGED <<contacts, currentCampaign, campaigns, persisted, listeners, tasks,
                   loops, nextId, deliveryTimers, config, harness, clientInfo>>

(***************************************************************************)
(* The process after initialize() on a host without bot_state.json.        *)
(***************************************************************************)
InitState ==
    /\ whatsappReady = FALSE
    /\ contacts = <<>>
    /\ currentCampaign = Null
    /\ campaigns = <<>>
    /\ persisted = [whatsappReady |-> FALSE, currentCampaign |-> Null,
                    campaigns |-> <<>>, contacts |-> <<>>]
    /\ listeners = <<>>
    /\ tasks = <<>>
    /\ loops = [l \in LoopIds |-> NoLoop]
    /\ nextId = 1
    /\ deliveryTimers = 0
    /\ clientInfo = FALSE

OneCampaign == 1

\* A fresh process, one authorized operator, delivery checking switched off,
\* a state file that cannot be written, one campaign confirmed.
Init ==
    /\ InitState
    /\ AUTHORIZED_USERS = {1}
    /\ MAX_RETRIES = 2
    /\ BATCH_SIZE \in 1..MaxBatch
    /\ ENABLE_DELIVERY_CHECK = FALSE
    /\ diskOk = FALSE
    /\ budget = OneCampaign
    /\ fmtIn = <<>>
    /\ fmtOut = NotFormatted

\* Steps of a dispatch loop when every control-channel notification is
\* delivered and the existence check does not throw.
LoopStep(l) ==
    \/ StartNoticeDone(l)
    \/ LookupNotFound(l) \/ LookupFound(l)
    \/ SendThrows(l) \/ SendOk(l)
    \/ ProgressDone(l)
    \/ BackoffDone(l)
    \/ PauseNoticeDone(l)
    \/ BatchPauseDone(l) \/ DelayDone(l)
    \/ SummaryDone(l)
    \/ FailedListDone(l)
    \/ SaveDone(l)

\* Steps in which an external call fails.
LoopFault(l) ==
    \/ StartNoticeFails(l)
    \/ LookupThrows(l)
    \/ ProgressFails(l)
    \/ PauseNoticeFails(l)
    \/ SummaryFails(l)
    \/ FailedListFails(l)

\* Campaigns under interleaved operator commands; delivery checking is
\* switched off and the state file is not writable.
Next ==
    \/ \E from \in {1, 3}, text \in CampaignTexts : Message(from, text)
    \/ \E l \in LoopIds : LoopStep(l)
    \/ \E k \in 1..MaxListeners : PromptDone(k)
    \/ Ready

Spec == Init /\ [][Next]_vars


(***************************************************************************)
(* Overlapping campaigns: a process restarted on the state file of an      *)
(* earlier run (loadState merges every field of the file into state), one  *)
(* operator who opens /send, confirms and stops.                           *)
(***************************************************************************)
ContactA == formatPhoneNumber(RawA)
ContactB == formatPhoneNumber(RawB)

InitOverlap ==
    /\ whatsappReady = TRUE
    /\ contacts = <<ContactA, ContactB>>
    /\ currentCampaign = Null
    /\ campaigns = <<>>
    /\ persisted = [whatsappReady |-> TRUE, currentCampaign |-> Null,
                    campaigns |-> <<>>, contacts |-> <<ContactA, ContactB>>]
    /\ listeners = <<>>
    /\ tasks = <<>>
    /\ loops = [l \in LoopIds |-> NoLoop]
    /\ nextId = 1
    /\ deliveryTimers = 0
    /\ AUTHORIZED_USERS = {}
    /\ MAX_RETRIES = 2
    /\ BATCH_SIZE = 1
    /\ ENABLE_DELIVERY_CHECK = FALSE
    /\ diskOk = FALSE
    /\ budget = MaxCampaigns
    /\ fmtIn = <<>>
    /\ fmtOut = NotFormatted
    /\ clientInfo = TRUE

OverlapTexts == {CMD_SEND, CMD_STOP, TxtYes}

OverlapStep(l) ==
    \/ StartNoticeDone(l)
    \/ LookupFound(l)
    \/ SendThrows(l) \/ SendOk(l)
    \/ ProgressDone(l)
    \/ BackoffDone(l)
    \/ PauseNoticeDone(l)
    \/ BatchPauseDone(l)
    \/ SummaryDone(l)
    \/ FailedListDone(l)
    \/ SaveDone(l)

NextOverlap ==
    \/ \E text \in OverlapTexts : Message(1, text)
    \/ \E l \in LoopIds : OverlapStep(l)
    \/ \E k \in 1..MaxListeners : PromptDone(k)

SpecOverlap == InitOverlap /\ [][NextOverlap]_vars


(***************************************************************************)
(* The contact registry under two authorized operators and one who is not: *)
(* /addcontact, AddContacts dialogs, /clearcontacts, free text.  The state *)
(* file is writable.                                                       *)
(***************************************************************************)
InitRegistry ==
    /\ InitState
    /\ AUTHORIZED_USERS = {1, 2}
    /\ MAX_RETRIES = 3
    /\ BATCH_SIZE = 5
    /\ ENABLE_DELIVERY_CHECK = TRUE
    /\ diskOk = TRUE
    /\ budget = 0
    /\ fmtIn = <<>>
    /\ fmtOut = NotFormatted

RegistryTexts == {CMD_ADDCONTACTS, CMD_DONE, CMD_CANCEL, CMD_CLEARCONTACTS,
                  CMD_ADDCONTACT \o RawLocal, CMD_ADDCONTACT \o RawIntl,
                  CMD_ADDCONTACT \o RawSpaced, TxtNumbers, TxtHi}

NextRegistry == \E from \in Operators, text \in RegistryTexts : Message(from, text)

SpecRegistry == InitRegistry /\ [][NextRegistry]_vars

(***************************************************************************)
(* One campaign from its creation to its end, for every batch size and     *)
(* registry size of the bounds, with failing external calls, while the     *)
(* operator may add one more contact.                                      *)
(***************************************************************************)
DigitChar == <<"1", "2", "3", "4", "5", "6", "7", "8", "9">>
Contact(k) == formatPhoneNumber(<<"0", "6", DigitChar[k]>>)
Registry(n) == [k \in 1..n |-> Contact(k)]
RawExtra == <<"0", "7">>

\* The state startCampaign leaves at its first await, after a restart on a
\* state file with n contacts, /send, a body and YES.
InitPacing ==
    /\ \E n \in 1..MaxRecipients :
         /\ contacts = Registry(n)
         /\ currentCampaign = NewCampaign(1, TxtHi, Registry(n))
         /\ loops = [l \in LoopIds |-> IF l = 1 THEN NewLoop(1, TxtHi, Registry(n)) ELSE NoLoop]
         /\ persisted = [whatsappReady |-> TRUE, currentCampaign |-> Null,
                         campaigns |-> <<>>, contacts |-> Registry(n)]
    /\ whatsappReady = TRUE
    /\ campaigns = <<>>
    /\ listeners = <<>>
    /\ tasks = <<>>
    /\ nextId = 2
    /\ deliveryTimers = 0
    /\ AUTHORIZED_USERS = {}
    /\ MAX_RETRIES = 2
    /\ BATCH_SIZE \in 1..MaxBatch
    /\ ENABLE_DELIVERY_CHECK = FALSE
    /\ diskOk = FALSE
    /\ budget = nextId - 1
    /\ fmtIn = <<>>
    /\ fmtOut = NotFormatted
    /\ clientInfo = TRUE

NextPacing ==
    \/ \E l \in LoopIds : LoopStep(l) \/ LoopFault(l)
    \/ Message(1, CMD_ADDCONTACT \o RawExtra)

SpecPacing == InitPacing /\ [][NextPacing]_vars

\* The same campaign when every external call a loop awaits eventually
\* returns or fails: a suspended loop is eventually resumed.
SpecPacingFair == SpecPacing /\ WF_vars(\E l \in LoopIds : LoopStep(l) \/ LoopFault(l))

(***************************************************************************)
(* formatPhoneNumber applied to sample inputs.                             *)
(***************************************************************************)
Alphabet == {"0", "1", "2", "6", "+", " "}
Strings(n) == UNION {[1..k -> Alphabet] : k \in 0..n}
Raw11 == <<"0", "6", "1", "2", "3", "4", "5", "6", "7", "8", "9">>
Raw12 == <<"0", "6", "1", "2", "3", "4", "5", "6", "7", "8", "9", "0">>
RawSamples == Strings(MaxSampleLen) \cup {RawLocal, RawIntl, RawSpaced, Raw11, Raw12}

InitNormalize ==
    /\ InitState
    /\ AUTHORIZED_USERS = {}
    /\ MAX_RETRIES = 3
    /\ BATCH_SIZE = 5
    /\ ENABLE_DELIVERY_CHECK = TRUE
    /\ diskOk = TRUE
    /\ budget = 0
    /\ fmtIn = <<>>
    /\ fmtOut = NotFormatted

Normalize ==
    /\ fmtOut = NotFormatted
    /\ fmtOut' = formatPhoneNumber(fmtIn)
    /\ UNCHANGED <<whatsappReady, contacts, currentCampaign, campaigns, persisted,
                   listeners, tasks, loops, nextId, deliveryTimers, config, fmtIn, clientInfo>>

NextInput ==
    /\ fmtOut # NotFormatted
    /\ fmtIn' \in RawSamples
    /\ fmtOut' = NotFormatted
    /\ UNCHANGED <<whatsappReady, contacts, currentCampaign, campaigns, persisted,
                   listeners, tasks, loops, nextId, deliveryTimers, config, clientInfo>>

NextNormalize == Normalize \/ NextInput

SpecNormalize == InitNormalize /\ [][NextNormalize]_vars


(***************************************************************************)
(* The dialogs: a process restarted on a state file with one contact, one  *)
(* authorized operator and one who is not, /send, /test and /addcontacts   *)
(* dialogs, /cancel, free text, connectivity events, and the campaign the  *)
(* operator confirms.                                                      *)
(***************************************************************************)
InitDialog ==
    /\ whatsappReady = TRUE
    /\ contacts = <<ContactA>>
    /\ currentCampaign = Null
    /\ campaigns = <<>>
    /\ persisted = [whatsappReady |-> TRUE, currentCampaign |-> Null,
                    campaigns |-> <<>>, contacts |-> <<ContactA>>]
    /\ listeners = <<>>
    /\ tasks = <<>>
    /\ loops = [l \in LoopIds |-> NoLoop]
    /\ nextId = 1
    /\ deliveryTimers = 0
    /\ AUTHORIZED_USERS = {1}
    /\ MAX_RETRIES = 1
    /\ BATCH_SIZE = 1
    /\ ENABLE_DELIVERY_CHECK = FALSE
    /\ diskOk = FALSE
    /\ budget = OneCampaign
    /\ fmtIn = <<>>
    /\ fmtOut = NotFormatted
    /\ clientInfo = FALSE

DialogTexts == {CMD_SEND, CMD_TEST, CMD_ADDCONTACTS, CMD_CANCEL, CMD_CLEARCONTACTS,
                TxtHi, TxtYes}

DialogStep(l) ==
    \/ StartNoticeDone(l)
    \/ LookupFound(l)
    \/ SendThrows(l) \/ SendOk(l)
    \/ ProgressDone(l)
    \/ PauseNoticeDone(l)
    \/ BatchPauseDone(l)
    \/ SummaryDone(l)
    \/ FailedListDone(l)
    \/ SaveDone(l)

NextDialog ==
    \/ \E from \in {1, 3}, text \in DialogTexts : Message(from, text)
    \/ \E l \in LoopIds : DialogStep(l)
    \/ \E k \in 1..MaxListeners : PromptDone(k) \/ PromptFails(k) \/ TestSendDone(k)
    \/ Ready
    \/ Disconnected

SpecDialog == InitDialog /\ [][NextDialog]_vars


(***************************************************************************)
(* Compose, confirm, send: one authorized operator and one who is not,     *)
(* /send, a body, YES in mixed case, /cancel, /stop, the confirmation      *)
(* prompt delivered or not, and connectivity events.  The loop of the      *)
(* campaign is left at its first await.                                    *)
(***************************************************************************)
InitCompose ==
    /\ whatsappReady = TRUE
    /\ contacts = <<ContactA>>
    /\ currentCampaign = Null
    /\ campaigns = <<>>
    /\ persisted = [whatsappReady |-> TRUE, currentCampaign |-> Null,
                    campaigns |-> <<>>, contacts |-> <<ContactA>>]
    /\ listeners = <<>>
    /\ tasks = <<>>
    /\ loops = [l \in LoopIds |-> NoLoop]
    /\ nextId = 1
    /\ deliveryTimers = 0
    /\ AUTHORIZED_USERS = {1}
    /\ MAX_RETRIES = 3
    /\ BATCH_SIZE = 5
    /\ ENABLE_DELIVERY_CHECK = FALSE
    /\ diskOk = FALSE
    /\ budget = OneCampaign
    /\ fmtIn = <<>>
    /\ fmtOut = NotFormatted
    /\ clientInfo = FALSE

TxtYesMixed == <<"Y", "e", "s">>
ComposeTexts == {CMD_SEND, CMD_STOP, CMD_CANCEL, TxtHi, TxtYesMixed}

NextCompose ==
    \/ \E from \in {1, 3}, text \in ComposeTexts : Message(from, text)
    \/ \E k \in 1..MaxListeners : PromptDone(k) \/ PromptFails(k)
    \/ Ready
    \/ Disconnected

SpecCompose == InitCompose /\ [][NextCompose]_vars

(***************************************************************************)
(* Every state-changing command under an allow-list that is empty or holds *)
(* operator 1, sent by operator 1 and by operator 3, while a campaign      *)
(* created before is at its first await.  The state file is writable.      *)
(***************************************************************************)
InitCommands ==
    /\ whatsappReady = TRUE
    /\ contacts = <<ContactA>>
    /\ currentCampaign = NewCampaign(1, TxtHi, <<ContactA>>)
    /\ campaigns = <<>>
    /\ persisted = [whatsappReady |-> TRUE, currentCampaign |-> Null,
                    campaigns |-> <<>>, contacts |-> <<ContactA>>]
    /\ listeners = <<>>
    /\ tasks = <<>>
    /\ loops = [l \in LoopIds |-> IF l = 1 THEN NewLoop(1, TxtHi, <<ContactA>>) ELSE NoLoop]
    /\ nextId = 2
    /\ deliveryTimers = 0
    /\ AUTHORIZED_USERS \in {{}, {1}}
    /\ MAX_RETRIES = 3
    /\ BATCH_SIZE = 5
    /\ ENABLE_DELIVERY_CHECK = FALSE
    /\ diskOk = TRUE
    /\ budget = nextId - 1
    /\ fmtIn = <<>>
    /\ fmtOut = NotFormatted
    /\ clientInfo = TRUE

CommandTexts == {CMD_SEND, CMD_TEST, CMD_STOP, CMD_ADDCONTACTS, CMD_CLEARCONTACTS,
                 CMD_ADDCONTACT \o RawB, CMD_CANCEL, TxtHi}

NextCommands ==
    \/ \E from \in {1, 3}, text \in CommandTexts : Message(from, text)
    \/ \E k \in 1..MaxListeners : PromptDone(k) \/ TestSendDone(k)

SpecCommands == InitCommands /\ [][NextCommands]_vars


(***************************************************************************)
(* /stop: a process restarted on a state file with two contacts, a         *)
(* campaign at its first await, one authorized operator and one who is     *)
(* not, who send /stop, /send and free text while the loop runs to its end.*)
(***************************************************************************)
InitStop ==
    /\ whatsappReady = TRUE
    /\ contacts = <<ContactA, ContactB>>
    /\ currentCampaign = NewCampaign(1, TxtHi, <<ContactA, ContactB>>)
    /\ campaigns = <<>>
    /\ persisted = [whatsappReady |-> TRUE, currentCampaign |-> Null,
                    campaigns |-> <<>>, contacts |-> <<ContactA, ContactB>>]
    /\ listeners = <<>>
    /\ tasks = <<>>
    /\ loops = [l \in LoopIds |-> IF l = 1 THEN NewLoop(1, TxtHi, <<ContactA, ContactB>>)
                                  ELSE NoLoop]
    /\ nextId = 2
    /\ deliveryTimers = 0
    /\ AUTHORIZED_USERS = {1}
    /\ MAX_RETRIES = 2
    /\ BATCH_SIZE \in 1..MaxBatch
    /\ ENABLE_DELIVERY_CHECK = FALSE
    /\ diskOk = TRUE
    /\ budget = nextId - 1
    /\ fmtIn = <<>>
    /\ fmtOut = NotFormatted
    /\ clientInfo = TRUE

StopTexts == {CMD_STOP, CMD_SEND, TxtHi}

NextStop ==
    \/ \E from \in {1, 3}, text \in StopTexts : Message(from, text)
    \/ \E l \in LoopIds : LoopStep(l)
    \/ \E k \in 1..MaxListeners : PromptDone(k)

SpecStop == InitStop /\ [][NextStop]_vars


(***************************************************************************)
(* Sessions of several operators: of two authorized operators one opens    *)
(* /send dialogs and the other /test and /addcontacts dialogs, a third is  *)
(* not authorized; bodies, YES, /cancel and /done; the prompts and the     *)
(* test sends return.  The loop of the campaign is left at its first await.*)
(***************************************************************************)
InitSessions ==
    /\ whatsappReady = TRUE
    /\ contacts = <<ContactA>>
    /\ currentCampaign = Null
    /\ campaigns = <<>>
    /\ persisted = [whatsappReady |-> TRUE, currentCampaign |-> Null,
                    campaigns |-> <<>>, contacts |-> <<ContactA>>]
    /\ listeners = <<>>
    /\ tasks = <<>>
    /\ loops = [l \in LoopIds |-> NoLoop]
    /\ nextId = 1
    /\ deliveryTimers = 0
    /\ AUTHORIZED_USERS = {1, 2}
    /\ MAX_RETRIES = 3
    /\ BATCH_SIZE = 5
    /\ ENABLE_DELIVERY_CHECK = FALSE
    /\ diskOk = FALSE
    /\ budget = OneCampaign
    /\ fmtIn = <<>>
    /\ fmtOut = NotFormatted
    /\ clientInfo = TRUE

SessionTexts == {CMD_SEND, CMD_TEST, CMD_ADDCONTACTS, CMD_CANCEL, CMD_DONE, TxtHi, TxtYes}
\* Operator 1 composes and confirms a campaign, operator 2 adds contacts and
\* tests, operator 3 writes free text.
TextsOf(who) ==
    CASE who = 1 -> {CMD_SEND, CMD_CANCEL, TxtHi, TxtYes}
      [] who = 2 -> {CMD_ADDCONTACTS, CMD_TEST, CMD_CANCEL, CMD_DONE, TxtHi}
      [] OTHER -> {TxtHi}

NextSessions ==
    \/ \E from \in Operators : \E text \in TextsOf(from) : Message(from, text)
    \/ \E k \in 1..MaxListeners : PromptDone(k) \/ TestSendDone(k)

SpecSessions == InitSessions /\ [][NextSessions]_vars


(***************************************************************************)
(* Delivery checking switched on: a campaign of one or two recipients from *)
(* its first await to its end, and the delivery callbacks armed by its     *)
(* sends, which fire during the campaign or after the slot was emptied.    *)
(***************************************************************************)
InitDelivery ==
    /\ \E n \in 1..2 :
         /\ contacts = Registry(n)
         /\ currentCampaign = NewCampaign(1, TxtHi, Registry(n))
         /\ loops = [l \in LoopIds |-> IF l = 1 THEN NewLoop(1, TxtHi, Registry(n)) ELSE NoLoop]
         /\ persisted = [whatsappReady |-> TRUE, currentCampaign |-> Null,
                         campaigns |-> <<>>, contacts |-> Registry(n)]
    /\ whatsappReady = TRUE
    /\ campaigns = <<>>
    /\ listeners = <<>>
    /\ tasks = <<>>
    /\ nextId = 2
    /\ deliveryTimers = 0
    /\ AUTHORIZED_USERS = {1}
    /\ MAX_RETRIES = 2
    /\ BATCH_SIZE \in 1..MaxBatch
    /\ ENABLE_DELIVERY_CHECK = TRUE
    /\ diskOk = TRUE
    /\ budget = nextId - 1
    /\ fmtIn = <<>>
    /\ fmtOut = NotFormatted
    /\ clientInfo = TRUE

NextDelivery ==
    \/ \E l \in LoopIds : LoopStep(l)
    \/ DeliveryAcked
    \/ DeliveryNotAcked
    \/ Message(1, CMD_STOP)

SpecDelivery == InitDelivery /\ [][NextDelivery]_vars


(***************************************************************************)
(* Delivery checking across campaigns: a campaign to one contact at its    *)
(* first await, every call succeeding, and an operator who composes and    *)
(* confirms the next campaign; the delivery callbacks fire at any time.    *)
(***************************************************************************)
InitRedeliver ==
    /\ whatsappReady = TRUE
    /\ contacts = <<ContactA>>
    /\ currentCampaign = NewCampaign(1, TxtHi, <<ContactA>>)
    /\ campaigns = <<>>
    /\ persisted = [whatsappReady |-> TRUE, currentCampaign |-> Null,
                    campaigns |-> <<>>, contacts |-> <<ContactA>>]
    /\ listeners = <<>>
    /\ tasks = <<>>
    /\ loops = [l \in LoopIds |-> IF l = 1 THEN NewLoop(1, TxtHi, <<ContactA>>) ELSE NoLoop]
    /\ nextId = 2
    /\ deliveryTimers = 0
    /\ AUTHORIZED_USERS = {1}
    /\ MAX_RETRIES = 1
    /\ BATCH_SIZE = 5
    /\ ENABLE_DELIVERY_CHECK = TRUE
    /\ diskOk = TRUE
    /\ budget = MaxCampaigns
    /\ fmtIn = <<>>
    /\ fmtOut = NotFormatted
    /\ clientInfo = TRUE

RedeliverTexts == {CMD_SEND, TxtHi, TxtYes}

NextRedeliver ==
    \/ \E text \in RedeliverTexts : Message(1, text)
    \/ \E k \in 1..MaxListeners : PromptDone(k)
    \/ \E l \in LoopIds :
          \/ StartNoticeDone(l)
          \/ LookupFound(l)
          \/ SendOk(l)
          \/ ProgressDone(l)
          \/ SummaryDone(l)
          \/ SaveDone(l)
    \/ DeliveryAcked
    \/ DeliveryNotAcked

SpecRedeliver == InitRedeliver /\ [][NextRedeliver]_vars


(***************************************************************************)
(* Restarts: the process ends and is started again on the state file it    *)
(* wrote.  initialize() runs loadState, which merges every field of the    *)
(* file into the fresh state object; listeners, suspended continuations,   *)
(* loops and timers of the old process are gone, and the new WhatsApp      *)
(* client has not become ready.                                            *)
(***************************************************************************)
Restart ==
    /\ whatsappReady' = persisted.whatsappReady
    /\ contacts' = persisted.contacts
    /\ currentCampaign' = persisted.currentCampaign
    /\ campaigns' = persisted.campaigns
    /\ listeners' = <<>>
    /\ tasks' = <<>>
    /\ loops' = [l \in LoopIds |-> IF Live(l) THEN NoLoop ELSE loops[l]]
    /\ deliveryTimers' = 0
    /\ clientInfo' = FALSE
    /\ UNCHANGED <<persisted, nextId, config, harness>>

InitRestart ==
    /\ InitState
    /\ AUTHORIZED_USERS = {1}
    /\ MAX_RETRIES = 3
    /\ BATCH_SIZE = 5
    /\ ENABLE_DELIVERY_CHECK = FALSE
    /\ diskOk = TRUE
    /\ budget = 0
    /\ fmtIn = <<>>
    /\ fmtOut = NotFormatted

RestartTexts == {CMD_ADDCONTACT \o RawA, CMD_CLEARCONTACTS, CMD_SEND, CMD_TEST, TxtHi}

NextRestart ==
    \/ \E text \in RestartTexts : Message(1, text)
    \/ \E k \in 1..MaxListeners : PromptDone(k) \/ TestSendDone(k)
    \/ Ready
    \/ Disconnected
    \/ Restart

SpecRestart == InitRestart /\ [][NextRestart]_vars


(***************************************************************************)
(*                              PROPERTIES                                 *)
(***************************************************************************)
Running(c) == c # Null /\ c.status = "running"
Records == (IF currentCampaign # Null THEN {currentCampaign} ELSE {})
             \cup {campaigns[k] : k \in DOMAIN campaigns}
NoDup(seq) == \A a, b \in DOMAIN seq : a # b => seq[a] # seq[b]

\* C1: at most one campaign runs at a time: no step starts more than one
\* campaign, and while the slot holds a running campaign no campaign is
\* started and the slot keeps that campaign (or is cleared by its own end).
C1_StartRefusedWhileRunning ==
    [][ /\ nextId' <= nextId + 1
        /\ Running(currentCampaign) =>
              /\ nextId' = nextId
              /\ currentCampaign' = Null \/ currentCampaign'.id = currentCampaign.id ]_vars

\* C2: every campaign record, in the slot or in the history, has
\* sent + failed <= total, with equality when its status is completed.
C2_CountersWithinTotal ==
    \A c \in Records :
        /\ c.sent + c.failed <= c.total
        /\ c.status = "completed" => c.sent + c.failed = c.total

\* C3: once /stop was accepted while a loop was processing recipient k, that
\* loop makes no existence check and no send for a later recipient.
C3_NoAttemptAfterStop ==
    \A l \in LoopIds :
        (loops[l].pc \in {"lookup", "send"} /\ loops[l].stopAt >= 0)
            => loops[l].i <= loops[l].stopAt

\* C4: the record a loop appends to the history is stamped with an end time
\* and has status completed when the loop exhausted its recipients and
\* stopped when it left on a stop request; the slot is empty once the loop
\* has ended.
C4_FinalStatusMatchesExit ==
    [][ \A l \in LoopIds :
          /\ (loops[l].pc \in {"summary", "failedList"} /\ loops'[l].pc = "saving") =>
                LET c == campaigns'[Len(campaigns')]
                IN  /\ c.endTime # NoTime
                    /\ c.status = IF loops[l].exit = "stopObserved"
                                  THEN "stopped" ELSE "completed"
          /\ (loops[l].pc = "saving" /\ loops'[l].pc = "done") => currentCampaign' = Null ]_vars

\* C5: a loop contacts exactly the recipients of the snapshot taken when its
\* campaign was created, in that order: the recipient it is checking or
\* sending to is the snapshot's, and it ends after the snapshot's last one.
C5_RecipientsFixedAtCreation ==
    \A l \in LoopIds :
        /\ loops[l].pc \in {"lookup", "send"} =>
              /\ loops[l].i < Len(loops[l].snapshot)
              /\ LoopContacts(l)[loops[l].i + 1] = loops[l].snapshot[loops[l].i + 1]
        /\ (Live(l) /\ loops[l].exit = "exhausted") => loops[l].i = Len(loops[l].snapshot)

\* C6: the registry never holds the same normalized identifier twice, and a
\* text (an /addcontact command or a batch of number lines) whose every
\* normalized identifier is already in the registry leaves its size unchanged.
C6_RegistryHasNoDuplicates ==
    /\ [](NoDup(contacts))
    /\ [][ \A from \in Operators :
             /\ \A raw \in {RawLocal, RawIntl, RawSpaced} :
                   (Message(from, CMD_ADDCONTACT \o raw)
                      /\ includes(contacts, formatPhoneNumber(raw)))
                   => Len(contacts') = Len(contacts)
             /\ (Message(from, TxtNumbers)
                   /\ \A raw \in {RawLocal, RawIntl, RawSpaced} :
                         includes(contacts, formatPhoneNumber(raw)))
                => Len(contacts') = Len(contacts) ]_vars

\* A batch of three number lines, two of which normalize to the same
\* identifier, was added by an AddContacts dialog that is still open (nothing
\* was written to the state file since the registry was last empty).
C6_Witness ==
    /\ contacts = <<formatPhoneNumber(RawIntl), formatPhoneNumber(RawLocal)>>
    /\ formatPhoneNumber(RawSpaced) = formatPhoneNumber(RawIntl)
    /\ persisted.contacts = <<>>
    /\ listeners # <<>>

\* C7: "0612345678" is normalized to "212612345678@c.us", the identifier of
\* "+212612345678".
C7_LocalNumberScenario ==
    (fmtIn = RawLocal /\ fmtOut # NotFormatted) =>
        /\ fmtOut = <<"2", "1", "2", "6", "1", "2", "3", "4", "5", "6", "7", "8">> \o SUFFIX
        /\ fmtOut = formatPhoneNumber(RawIntl)

\* C8: when the existence check of a recipient answers not-found, no send was
\* attempted for that recipient, its retry counter is and stays zero, failed
\* grows by one, one "Invalid number" entry is recorded, nothing is counted as
\* sent, and the loop goes on (pacing, next recipient, or the end).
C8_InvalidRecipient ==
    [][ \A l \in LoopIds : LookupNotFound(l) =>
          /\ loops[l].sendAttempts = 0
          /\ loops[l].attempts = 0
          /\ currentCampaign # Null
          /\ currentCampaign'.failed = currentCampaign.failed + 1
          /\ currentCampaign'.sent = currentCampaign.sent
          /\ currentCampaign'.failedContacts =
                Append(currentCampaign.failedContacts,
                       [contact |-> LoopContacts(l)[loops[l].i + 1],
                        reason |-> INVALID_NUMBER])
          /\ loops'[l].pc \in {"pauseNotice", "delay", "lookup", "summary"}
          /\ loops'[l].pc \in {"pauseNotice", "delay"} => loops'[l].attempts = 0 ]_vars

\* C9: for a recipient that was found at every existence check and whose
\* every send failed, a failed send is retried until MAX_RETRIES sends were
\* made; the last one increments failed once, records one entry with the
\* send error and attempts = MAX_RETRIES, and leaves sent alone.
C9_RetriesExhausted ==
    [][ \A l \in LoopIds :
          (SendThrows(l) /\ loops[l].attempts = loops[l].sendFails
                         /\ loops[l].sendAttempts = loops[l].sendFails + 1) =>
             IF loops[l].sendAttempts < MAX_RETRIES
             THEN /\ loops'[l].pc = "backoff"
                  /\ currentCampaign' = currentCampaign
             ELSE /\ loops[l].sendAttempts = MAX_RETRIES
                  /\ currentCampaign # Null
                  /\ currentCampaign'.failed = currentCampaign.failed + 1
                  /\ currentCampaign'.sent = currentCampaign.sent
                  /\ currentCampaign'.failedContacts =
                        Append(currentCampaign.failedContacts,
                               [contact |-> LoopContacts(l)[loops[l].i + 1],
                                reason |-> ERR_SEND, attempts |-> MAX_RETRIES]) ]_vars

\* C10: a loop enters the batch break (notice, then a BATCH_DELAY timer)
\* exactly when BATCH_SIZE recipients were processed since the previous break
\* and the recipient is not the last; otherwise, if the recipient is not the
\* last, it waits a delay within [MESSAGE_DELAY_MIN, MESSAGE_DELAY_MAX]; it
\* never goes on to the next recipient without one of the two pauses, and no
\* pause follows the last recipient.
SinceBreak(l) == loops[l].i - loops[l].lastBatchPause
C10_Pacing ==
    /\ [](\A l \in LoopIds :
            /\ loops[l].pc \in {"pauseNotice", "batchPause"} =>
                  /\ SinceBreak(l) = BATCH_SIZE
                  /\ loops[l].i < Len(LoopContacts(l)) - 1
            /\ loops[l].pc = "batchPause" => loops[l].pause = BATCH_DELAY
            /\ loops[l].pc = "delay" =>
                  /\ SinceBreak(l) < BATCH_SIZE
                  /\ loops[l].i < Len(LoopContacts(l)) - 1
                  /\ MESSAGE_DELAY_MIN <= loops[l].pause
                  /\ loops[l].pause <= MESSAGE_DELAY_MAX)
    /\ [][ \A l \in LoopIds :
             (Live(l) /\ loops'[l].pc = "lookup" /\ loops'[l].i = loops[l].i + 1)
                => loops[l].pc \in {"batchPause", "delay"} ]_vars

\* A second batch break of one campaign is running its timer.
C10_Witness ==
    \E l \in LoopIds : loops[l].pc = "batchPause" /\ loops[l].lastBatchPause >= 0

\* Position of an identifier in a recipient array, 0 when absent.
PositionIn(cs, c) == IF includes(cs, c) THEN CHOOSE k \in 1..Len(cs) : cs[k] = c ELSE 0

\* C11: when a loop has exhausted its recipients (no stop was requested), the
\* record is completed, every processed recipient is counted once, as sent or
\* as failed (sent + failed = recipients processed), and the ledger holds one
\* entry per failed recipient, in processing order.
C11_FinalCounters ==
    \A l \in LoopIds :
        (loops[l].pc = "summary" /\ loops[l].exit = "exhausted") =>
            LET c == currentCampaign
                cs == LoopContacts(l)
                ledger == c.failedContacts
            IN  /\ c.status = "completed"
                /\ c.sent + c.failed = loops[l].i
                /\ Len(ledger) = c.failed
                /\ \A a, b \in DOMAIN ledger :
                      a < b => PositionIn(cs, ledger[a].contact) < PositionIn(cs, ledger[b].contact)

\* C12: no campaign is created over an empty recipient list: every record, in
\* the slot or in the history, has at least one recipient, and a step that
\* starts a campaign starts it over a non-empty registry.
C12_NoEmptyCampaign ==
    /\ [](\A c \in Records : c.total > 0 /\ c.contacts # <<>>)
    /\ [][ nextId' > nextId => contacts' # <<>> ]_vars

\* C13: a campaign is created only while the connectivity flag says ready.
C13_NoStartWhenNotReady ==
    [][ nextId' > nextId => whatsappReady ]_vars

\* C14: an operator has at most one active session: no two registered input
\* listeners belong to the same operator.
C14_OneSessionPerOperator ==
    \A a, b \in DOMAIN listeners : a # b => listeners[a].chatId # listeners[b].chatId

SessionsOf(ls, kinds, who) == SelectSeq(ls, LAMBDA l : l.kind \in kinds /\ l.chatId = who)
Count(seq, x) == Cardinality({k \in DOMAIN seq : seq[k] = x})

OnList(who) == AUTHORIZED_USERS = {} \/ who \in AUTHORIZED_USERS

\* C16: in every reachable state, no session belongs to an operator who is
\* not on a non-empty allow-list, and a text from such an operator leaves the
\* registry, the slot, the history, the state file, the registered listeners
\* and the pending dialogs as they are; a command from an operator who is on
\* the list, or from anyone when the list is empty, is acted on
\* (/clearcontacts empties the registry and the file, /addcontact adds the
\* identifier, /stop stops the running campaign, /addcontacts, /test and /send
\* open their dialog).
C16_Authorization ==
    /\ \A k \in DOMAIN listeners : OnList(listeners[k].chatId)
    /\ \A who \in Operators, text \in CommandTexts :
          LET st == Dispatch(CurSt, who, text)
          IN  ~OnList(who) =>
                 /\ st.contacts = contacts
                 /\ st.currentCampaign = currentCampaign
                 /\ st.campaigns = campaigns
                 /\ st.persisted = persisted
                 /\ st.listeners = listeners
                 /\ st.tasks = tasks
                 /\ st.loops = loops
                 /\ st.nextId = nextId
    /\ \A who \in Operators :
          OnList(who) =>
             /\ LET st == Dispatch(CurSt, who, CMD_CLEARCONTACTS)
                IN  st.contacts = <<>> /\ st.persisted.contacts = <<>>
             /\ LET st == Dispatch(CurSt, who, CMD_ADDCONTACT \o RawB)
                IN  includes(st.contacts, ContactB)
             /\ LET st == Dispatch(CurSt, who, CMD_STOP)
                IN  Running(currentCampaign) => st.currentCampaign.status = "stopped"
             /\ LET st == Dispatch(CurSt, who, CMD_ADDCONTACTS)
                IN  Len(SessionsOf(st.listeners, {"contact"}, who))
                       = Len(SessionsOf(listeners, {"contact"}, who)) + 1
             /\ LET st == Dispatch(CurSt, who, CMD_TEST)
                IN  whatsappReady =>
                       Len(SessionsOf(st.listeners, {"test"}, who))
                          = Len(SessionsOf(listeners, {"test"}, who)) + 1
             /\ LET st == Dispatch(CurSt, who, CMD_SEND)
                IN  (whatsappReady /\ contacts # <<>> /\ ~Running(currentCampaign)) =>
                       Len(SessionsOf(st.listeners, {"message"}, who))
                          = Len(SessionsOf(listeners, {"message"}, who)) + 1

\* With an empty allow-list operator 3 has stopped the campaign, added a
\* contact and opened a dialog.
C16_Witness ==
    /\ AUTHORIZED_USERS = {}
    /\ currentCampaign.status = "stopped"
    /\ includes(contacts, ContactB)
    /\ SessionsOf(listeners, {"contact", "message", "test"}, 3) # <<>>
    /\ SessionsOf(listeners, {"contact", "message", "test"}, 1) = <<>>

\* C17: when a loop has finished a recipient that is the last one or a 10th
\* one (it goes on to the pacing, to the next recipient or to the end), the
\* step that finishes the recipient is the return of the progress report,
\* whatever the recipient's outcome.
C17_ProgressAfterEveryOutcome ==
    [][ \A l \in LoopIds :
          (/\ loops[l].pc \in {"lookup", "send", "progress", "backoff"}
           /\ loops'[l].pc \in {"pauseNotice", "delay", "summary"}
           /\ \/ (loops[l].i + 1) % PROGRESS_EVERY = 0
              \/ loops[l].i = Len(LoopContacts(l)) - 1)
          => loops[l].pc = "progress" ]_vars

\* sendMessage calls to the messaging channel that have not returned: the
\* loops suspended at line 708 and the test sends suspended at line 659.
SendsInFlight ==
    Cardinality({l \in LoopIds : loops[l].pc = "send"})
        + Cardinality({k \in DOMAIN tasks : tasks[k].kind = "test"})

\* C18: at most one sendMessage call is in flight at any time.
C18_OneSendInFlight == SendsInFlight <= 1

\* C19: a failed existence check or a failed send never ends the loop (the
\* loop is still running after the failure was handled), and a campaign that
\* exhausted its recipients without one successful send has failed = total
\* and one ledger entry per recipient.
C19_FailuresNeverAbort ==
    /\ [][ \A l \in LoopIds :
             (LookupNotFound(l) \/ LookupThrows(l) \/ SendThrows(l)) => Live(l)' ]_vars
    /\ [](\A l \in LoopIds :
            (loops[l].pc = "summary" /\ loops[l].exit = "exhausted"
               /\ currentCampaign.sent = 0) =>
                 /\ currentCampaign.failed = currentCampaign.total
                 /\ Len(currentCampaign.failedContacts) = currentCampaign.total)

\* C20: on a host whose state file is writable, the file holds the registry
\* and the history of the memory after every handler has run, and the slot
\* of the memory once no campaign loop is running.
C20_PersistedMatchesMemory ==
    diskOk =>
       /\ persisted.contacts = contacts
       /\ persisted.campaigns = campaigns
       /\ (\A l \in LoopIds : ~Live(l)) => persisted.currentCampaign = currentCampaign

\* C21: the slot is empty or holds a campaign whose status is running; the
\* records whose status is completed or stopped are those of the history.
C21_SlotEmptyOrRunning ==
    /\ currentCampaign = Null \/ currentCampaign.status = "running"
    /\ \A k \in DOMAIN campaigns : campaigns[k].status \in {"completed", "stopped"}

\* C22: every campaign record, in the slot or in the history, has as many
\* entries in its failure ledger as its failed counter says.
C22_LedgerMatchesFailed ==
    \A c \in Records : Len(c.failedContacts) = c.failed

\* C23: /stop from any operator, in any reachable state: when the sender is
\* not authorized, the slot is empty or its campaign is not running, nothing
\* changes; when it is accepted, the status of the slot becomes stopped and
\* the counters, the ledger, the history, the state file, the sessions and
\* the position of every loop stay; a second /stop changes nothing more.
C23_StopOnlyFlipsStatus ==
    \A who \in Operators :
        LET st == Dispatch(CurSt, who, CMD_STOP)
        IN  /\ st.whatsappReady = whatsappReady
            /\ st.contacts = contacts
            /\ st.campaigns = campaigns
            /\ st.persisted = persisted
            /\ st.listeners = listeners
            /\ st.tasks = tasks
            /\ st.nextId = nextId
            /\ \A l \in LoopIds :
                  \/ st.loops[l] = loops[l]
                  \/ /\ loops[l].pc \in ProcessingPcs
                     /\ st.loops[l] = [loops[l] EXCEPT !.stopAt = loops[l].i]
            /\ IF OnList(who) /\ Running(currentCampaign)
               THEN /\ st.currentCampaign = [currentCampaign EXCEPT !.status = "stopped"]
                    /\ Dispatch(st, who, CMD_STOP) = st
               ELSE /\ st.currentCampaign = currentCampaign
                    /\ st.loops = loops

\* /stop was accepted after a recipient was counted, and the loop has not
\* yet observed it.
C23_Witness ==
    /\ currentCampaign # Null
    /\ currentCampaign.status = "stopped"
    /\ currentCampaign.sent + currentCampaign.failed > 0
    /\ loops[1].pc \in ProcessingPcs
    /\ loops[1].stopAt >= 0

Range(seq) == {seq[k] : k \in DOMAIN seq}
BatchTexts == {TxtNumbers, TxtHi}
\* The normalized identifiers of the number lines of a batch.
BatchIds(text) == {formatPhoneNumber(n) : n \in Range(ParseNumbers(text))}

\* C24: for an operator with an open AddContacts session, a batch of lines
\* keeps the registry as a prefix and appends, once each, exactly the
\* normalized identifiers of its lines that were not in the registry;
\* /cancel and /done leave the registry as it is and close the operator's
\* AddContacts sessions, and a batch sent after either adds nothing; an
\* operator without such a session adds nothing with a batch.
C24_AddContactsSession ==
    \A who \in Operators :
        /\ \A text \in BatchTexts :
              LET st == Dispatch(CurSt, who, text)
                  n == Len(contacts)
                  added == SubSeq(st.contacts, n + 1, Len(st.contacts))
              IN  IF SessionsOf(listeners, {"contact"}, who) # <<>>
                  THEN /\ SubSeq(st.contacts, 1, n) = contacts
                       /\ Range(added) = BatchIds(text) \ Range(contacts)
                       /\ NoDup(added)
                  ELSE st.contacts = contacts
        /\ \A end \in {CMD_CANCEL, CMD_DONE} :
              LET st == Dispatch(CurSt, who, end)
              IN  /\ st.contacts = contacts
                  /\ SessionsOf(st.listeners, {"contact"}, who) = <<>>
                  /\ \A text \in BatchTexts : Dispatch(st, who, text).contacts = st.contacts

\* An AddContacts session in which a batch was added has been cancelled: the
\* two identifiers of the batch are in the registry, no session is open, and
\* nothing was written to the state file.
C24_Witness ==
    /\ contacts = <<formatPhoneNumber(RawIntl), formatPhoneNumber(RawLocal)>>
    /\ persisted.contacts = <<>>
    /\ listeners = <<>>

SessionKinds == {"contact", "message", "confirm", "test"}
TasksOf(ts, who) == SelectSeq(ts, LAMBDA t : t.chatId = who)
OtherCommands == {CMD_SEND, CMD_TEST, CMD_ADDCONTACTS, CMD_STOP, CMD_CLEARCONTACTS,
                  CMD_ADDCONTACT \o RawB}

TestSends(ts, who) == SelectSeq(ts, LAMBDA t : t.kind = "test" /\ t.chatId = who)

\* C26: a body sent by an operator with an open Test dialog ends the dialog
\* and puts exactly one sendMessage call in flight for it, and leaves the
\* registry, the slot and the history as they are; the return of that call,
\* resolved or rejected, is followed by no other call and leaves the same
\* fields as they are.
C26_TestDialog ==
    /\ [](\A who \in Operators :
            LET n == Len(SessionsOf(listeners, {"test"}, who))
                st == Dispatch(CurSt, who, TxtHi)
            IN  n > 0 =>
                  /\ SessionsOf(st.listeners, {"test"}, who) = <<>>
                  /\ Len(TestSends(st.tasks, who)) = Len(TestSends(tasks, who)) + n
                  /\ st.currentCampaign = currentCampaign
                  /\ st.campaigns = campaigns
                  /\ SessionsOf(listeners, {"contact"}, who) = <<>> => st.contacts = contacts)
    /\ [][ \A k \in 1..MaxListeners : TestSendDone(k) =>
             /\ Len(tasks') = Len(tasks) - 1
             /\ UNCHANGED <<contacts, currentCampaign, campaigns, listeners>> ]_vars

\* C27: the history is append-only: every step keeps the entries it holds, in
\* their order and with their counters, status and ledger, and appends at
\* most one entry at the end; no campaign is in the history twice.
C27_HistoryAppendOnly ==
    /\ [][ /\ Len(campaigns') \in {Len(campaigns), Len(campaigns) + 1}
           /\ SubSeq(campaigns', 1, Len(campaigns)) = campaigns ]_vars
    /\ [](\A a, b \in DOMAIN campaigns : a # b => campaigns[a].id # campaigns[b].id)

\* The reference rule, character by character.
RECURSIVE DigitsOf(_)
DigitsOf(s) ==
    IF s = <<>> THEN <<>>
    ELSE (IF Head(s) \in Digits THEN <<Head(s)>> ELSE <<>>) \o DigitsOf(Tail(s))

ReferenceRule(s) ==
    LET d == DigitsOf(s)
        has212 == Len(d) >= 3 /\ d[1] = "2" /\ d[2] = "1" /\ d[3] = "2"
        has1 == Len(d) >= 1 /\ d[1] = "1"
        at == <<"@", "c", ".", "u", "s">>
    IN  IF ~has212 /\ ~has1 /\ Len(d) < 12
        THEN <<"2", "1", "2">> \o d \o at
        ELSE d \o at

\* C28: for every input, formatPhoneNumber returns the digits of the input,
\* preceded by "212" exactly when they do not start with "212", do not start
\* with "1" and are fewer than 12, followed by "@c.us"; every input has a
\* result.
C28_ReferenceRule ==
    fmtOut # NotFormatted =>
        /\ fmtOut = ReferenceRule(fmtIn)
        /\ Len(fmtOut) >= Len(SUFFIX)

\* Twelve digits starting with 0 were normalized without the prefix.
C28_Witness ==
    /\ fmtIn = Raw12
    /\ fmtOut = Raw12 \o SUFFIX

AttemptPcs == {"lookup", "send", "progress", "backoff"}

\* C29: a loop goes through its recipient array in index order, one recipient
\* at a time: its index never decreases and grows by one at a time; while it
\* is checking, sending to, reporting on or backing off for a recipient the
\* index stays; the index moves on only when the pause after the recipient
\* (batch break or random delay) has ended, or, after the last recipient, to
\* the end of the loop; a check or a send is always for a recipient inside
\* the array.
C29_RecipientsInOrder ==
    /\ [][ \A l \in LoopIds : (Live(l) /\ Live(l)') =>
             /\ loops'[l].i \in {loops[l].i, loops[l].i + 1}
             /\ (loops[l].pc \in AttemptPcs /\ loops'[l].pc \in AttemptPcs) =>
                   loops'[l].i = loops[l].i
             /\ loops'[l].i = loops[l].i + 1 =>
                   \/ loops[l].pc \in {"batchPause", "delay"}
                   \/ /\ loops[l].i = Len(LoopContacts(l)) - 1
                      /\ loops'[l].pc = "summary"
             /\ (loops[l].pc \in {"pauseNotice", "batchPause", "delay"}
                   /\ loops'[l].pc \in AttemptPcs) =>
                   /\ loops[l].pc # "pauseNotice"
                   /\ loops'[l].pc = "lookup"
                   /\ loops'[l].i = loops[l].i + 1 ]_vars
    /\ [](\A l \in LoopIds :
            loops[l].pc \in {"lookup", "send"} => loops[l].i < Len(LoopContacts(l)))

\* The loop is sending to its third recipient after one recipient was sent
\* to and one failed.
C29_Witness ==
    /\ loops[1].pc = "send"
    /\ loops[1].i = 2
    /\ currentCampaign.sent = 1
    /\ currentCampaign.failed = 1

\* C30: a step in which a delivery callback fires leaves the registry, the
\* history, the state file, the loops and the sessions as they are; when the
\* slot is empty it stays empty; when the query fails or the message is not
\* acknowledged the slot is unchanged; otherwise only the delivered counter
\* of the slot grows, by one.
C30_CallbackSwallowsFailure ==
    [][ deliveryTimers' < deliveryTimers =>
          /\ UNCHANGED <<whatsappReady, contacts, campaigns, persisted, loops, listeners,
                         tasks, nextId>>
          /\ currentCampaign = Null => currentCampaign' = Null
          /\ currentCampaign # Null =>
                \/ currentCampaign' = currentCampaign
                \/ currentCampaign' = [currentCampaign EXCEPT !.delivered = @ + 1]
          /\ DeliveryNotAcked => currentCampaign' = currentCampaign ]_vars

\* The campaign has ended and the slot is empty while the delivery callback
\* of its last send is still armed.
C30_Witness ==
    /\ currentCampaign = Null
    /\ deliveryTimers > 0
    /\ loops[1] = DoneLoop
    /\ Len(campaigns) = 1
    /\ campaigns[1].sent > 0

\* C31: when every awaited call eventually returns or fails, the campaign
\* that was started eventually is in the history with the slot empty, and
\* the slot never holds a running campaign while no dispatch loop is active.
C31_EveryCampaignArchived ==
    /\ <>(currentCampaign = Null /\ campaigns # <<>>)
    /\ [](Running(currentCampaign) => \E l \in LoopIds : Live(l))

\* C32: a recipient is counted once, as sent or as failed: no step of a loop
\* adds more than one to sent + failed, and once the recipient the loop is
\* at was counted as sent, no step of its retry loop changes sent or failed.
C32_CountedOnce ==
    [][ \A l \in LoopIds :
          (loops[l].pc \in AttemptPcs /\ currentCampaign # Null /\ currentCampaign' # Null) =>
             /\ (currentCampaign'.sent - currentCampaign.sent)
                   + (currentCampaign'.failed - currentCampaign.failed) <= 1
             /\ loops[l].sent =>
                   /\ currentCampaign'.failed = currentCampaign.failed
                   /\ currentCampaign'.sent = currentCampaign.sent ]_vars

\* C33: one inbound message starts at most one dispatch loop, and a loop
\* never calls sendMessage for a recipient it has already sent to.
C33_OneLoopPerConfirmation ==
    /\ [][ Cardinality({l \in LoopIds : ~Live(l) /\ Live(l)'}) <= 1 ]_vars
    /\ [](\A l \in LoopIds : loops[l].pc = "send" => ~loops[l].sent)

\* C34: a dispatch loop works on the campaign record it created (loop l
\* created the campaign with id l): a step of a loop taken while the slot
\* holds another campaign leaves that record as it is and does not go on to
\* an existence check or a send.
C34_LoopOwnsItsRecord ==
    [][ \A l \in LoopIds :
          (OverlapStep(l) /\ currentCampaign # Null /\ currentCampaign.id # l) =>
             /\ currentCampaign' = currentCampaign
             /\ loops'[l].pc \notin {"lookup", "send"} ]_vars

\* C35: every campaign record, in the slot or in the history, has
\* delivered <= sent.
C35_DeliveredWithinSent ==
    \A c \in Records : c.delivered <= c.sent

\* C36: a free text from an operator who has a /send or /test dialog waiting
\* for its body leaves the registry as it is.
C36_BodyAddsNoContact ==
    \A who \in Operators :
        SessionsOf(listeners, {"message", "test"}, who) # <<>> =>
            Dispatch(CurSt, who, TxtHi).contacts = contacts

\* C37: the connectivity flag is true only if the WhatsApp client of this
\* process has become ready (and false after a disconnect): a process that
\* has seen no ready event has the flag false.
C37_ReadyOnlyAfterReadyEvent ==
    /\ [](whatsappReady => clientInfo)
    /\ [][ Disconnected => ~whatsappReady' ]_vars

\* C38: normalizing a normalized identifier returns it unchanged, and adding
\* an identifier again to a registry that holds it leaves the registry as it
\* is.
C38_NormalizeIdempotent ==
    fmtOut # NotFormatted =>
        /\ formatPhoneNumber(fmtOut) = fmtOut
        /\ AddContact(<<fmtOut>>, fmtOut) = <<fmtOut>>
        /\ AddContact(AddContact(<<>>, fmtIn), fmtOut) = <<fmtOut>>

\* A local number was normalized with the prefix added, and normalizing the
\* result again adds no second prefix.
C38_Witness ==
    /\ fmtIn = RawLocal
    /\ fmtOut = PREFIX \o RawLocal \o SUFFIX
    /\ formatPhoneNumber(fmtOut) = fmtOut

====
